---- MODULE Spec2Model ----
(***************************************************************************)
(* Model of src/main.py: the Streamlit chat page (main) and the run        *)
(* polling loop (retrieve_assistant_response) against the remote           *)
(* thread/run service.                                                     *)
(*                                                                         *)
(* One page rerun executes main() from the top.  The script is modelled    *)
(* as a sequential process whose program counter pc stops before every     *)
(* remote call and before time.sleep, because the remote runs advance      *)
(* on their own between those points.                                      *)
(***************************************************************************)
EXTENDS Integers, Sequences, FiniteSets, TLC

\* ---------------------------------------------------------------- bounds
MaxTurns == 2        \* non-empty user inputs submitted in one UI session
MaxPolls == 3        \* the call counters are exact up to here (the loop itself is unbounded)
MaxRunMsgs == 1      \* messages a run adds to the thread when it completes

\* ---------------------------------------------------------------- inputs
None == "<None>"                \* Python None where a string is expected
NoneTs == 0 - 1                 \* Python None where a timestamp is expected
UserTexts == {"q1"}             \* what the user may type (the code never looks at the text)
CreatedAts == {100}             \* created_at values the service reports
Elapsed == {7, 86407}           \* completed_at - created_at of a completed run
Inputs == {None, ""} \cup UserTexts

NonTerminal == {"queued", "in_progress"}
FailureStates == {"failed", "cancelled", "expired"}
Terminal == {"completed"} \cup FailureStates

VARIABLES
    session_state,  \* st.session_state: a dict, keys "messages" and "thread"
    pc,             \* position of the script
    user_message,   \* local of main
    run_id,         \* local of main (0 before create_run returned)
    reply_content,  \* value retrieve_assistant_response returned
    threads,        \* remote: thread id -> messages, most recent first
    runs,           \* remote: run id -> run object
    turns,          \* non-empty inputs accepted so far
    echoLen,        \* length of the transcript right after the echo of this turn
    fault,          \* remote call of this turn that raised, or "none"
    outcome,        \* how retrieve_assistant_response ended for this turn
    observed,       \* status seen by the last successful runs.retrieve of this turn
    nStatusCalls,   \* runs.retrieve calls of this wait (saturating)
    nPendingSeen,   \* of which: observed queued or in_progress (saturating)
    nSleeps,        \* time.sleep calls of this wait (saturating)
    nListCalls,     \* messages.list calls of this wait
    listResult,     \* data of the last messages.list answer of this wait
    lastCall,       \* last remote call: operation and thread id passed
    inputShown,     \* the chat_input widget has been rendered in the browser
    faultThread,    \* thread id held when a turn last ended on a raised remote call, else 0
    logged          \* elapsed times logged by this wait (line 168), at most MaxPolls + 1 kept

vars == <<session_state, pc, user_message, run_id, reply_content, threads, runs,
          turns, echoLen, fault, outcome, observed, nStatusCalls, nPendingSeen,
          nSleeps, nListCalls, listResult, lastCall, inputShown, faultThread,
          logged>>

instr == <<nStatusCalls, nPendingSeen, nSleeps, nListCalls, listResult, logged>>

\* --------------------------------------------------------------- helpers
\* "is not None" in place of truthiness: the empty string passes
Truthy_NotNone(v) == v # None

\* line 259: if user_message
Truthy(v) == v # None /\ v # ""
TruthyTs(t) == t # NoneTs /\ t # 0
\* counters are exact in 0..MaxPolls; MaxPolls + 1 stands for "more"
Sat(n) == IF n <= MaxPolls THEN n + 1 ELSE n

Has(key) == key \in DOMAIN session_state
Put(ss, key, val) == [k \in DOMAIN ss \cup {key} |-> IF k = key THEN val ELSE ss[k]]
Transcript == IF Has("messages") THEN session_state["messages"] ELSE <<>>
Thread == IF Has("thread") THEN session_state["thread"] ELSE 0

Entry(role, content) == [role |-> role, content |-> content]
Message(role, text) == [role |-> role, content |-> <<text>>]
ReplyText(r) == "a" \o ToString(r)

IsPrefix(s, t) == Len(s) <= Len(t) /\ \A i \in 1..Len(s) : s[i] = t[i]

Call(op, tid) == [op |-> op, thread |-> tid]

\* ------------------------------------------------------ pieces of main()
\* the guard of line 245 dropped: the transcript is reset on every rerun
MessagesInit_Reset(ss) == Put(ss, "messages", <<>>)

\* lines 245-246: if "messages" not in st.session_state: ... = []
MessagesInit(ss) ==
    IF "messages" \notin DOMAIN ss THEN Put(ss, "messages", <<>>) ELSE ss

\* the guard of line 248 dropped: a thread is created on every rerun
NeedsThread_Always(ss) == TRUE

\* the transcript tested as well: a thread is created while there is no entry yet
NeedsThread_WhileEmpty(ss) == "thread" \notin DOMAIN ss \/ ss["messages"] = <<>>

\* line 248: if "thread" not in st.session_state
NeedsThread(ss) == "thread" \notin DOMAIN ss

\* lines 261 and 276: st.session_state.messages.append({...})
AppendEntry(ss, role, content) ==
    Put(ss, "messages", Append(ss["messages"], Entry(role, content)))

\* the exception swallowed (try/except: pass): main goes on to line 270
OnUncaughtException_GoOn == "create_run"

\* lines 267 and 270: nothing catches what the call raises, the script stops
OnUncaughtException == "idle"

\* --------------------------- pieces of retrieve_assistant_response()
\* the break of line 176 dropped: the loop goes on to line 177
OnWaitException_Retry == "sleep"

\* lines 174-176: except Exception: log; break  -> falls out of the loop, returns None
OnWaitException == "ret"

\* a retry limit in place of line 160: for _ in range(2)
WhileTrue_TwoTries(n) == n < 2

\* line 160: while True -- the loop condition, whatever the number n of polls made
WhileTrue(n) == TRUE

\* created_at tested in place of completed_at
RunIsComplete_CreatedAt(run) == TruthyTs(run.created_at)

\* %H, %M, %S: a field of the time tuple as two decimal digits
Pad2(n) == IF n < 10 THEN "0" \o ToString(n) ELSE ToString(n)

\* lines 165-167: time.strftime("%H:%M:%S", time.gmtime(elapsed_time)) -- gmtime
\* gives the time of day of second e of the epoch: tm_hour is in 0..23
FormatElapsed(e) ==
    Pad2((e \div 3600) % 24) \o ":" \o Pad2((e \div 60) % 60) \o ":" \o Pad2(e % 60)

\* line 163: if run.completed_at
RunIsComplete(run) == TruthyTs(run.completed_at)

\* data[-1] instead of data[0]: the oldest message
FirstText_Oldest(data) == data[Len(data)].content[1]

\* lines 171-172: messages.data[0].content[0].text.value
FirstText(data) == data[1].content[1]

\* ------------------------------------------------------------------ Init
Init ==
    /\ session_state = <<>>
    /\ pc = "idle"
    /\ user_message = None
    /\ run_id = 0
    /\ reply_content = None
    /\ threads = <<>>
    /\ runs = <<>>
    /\ turns = 0
    /\ echoLen = 0
    /\ fault = "none"
    /\ outcome = "none"
    /\ observed = None
    /\ nStatusCalls = 0
    /\ nPendingSeen = 0
    /\ nSleeps = 0
    /\ nListCalls = 0
    /\ listResult = <<>>
    /\ lastCall = Call("none", 0)
    /\ inputShown = FALSE
    /\ faultThread = 0
    /\ logged = <<>>

\* --------------------------------------------------------------- actions
\* main() lines 245-263: one page rerun up to the first remote call of a turn.
\* create_thread (line 249) is called inside it when the key is missing.
Rerun ==
    /\ pc = "idle"
    /\ \E input \in Inputs, createOk \in BOOLEAN :
         LET ss1 == MessagesInit(session_state)
             create == NeedsThread(ss1)
             tid == Len(threads) + 1
             ss2 == IF create /\ createOk THEN Put(ss1, "thread", tid) ELSE ss1
         IN  /\ (~create => createOk)
             /\ (Truthy(input) => inputShown /\ turns < MaxTurns)
             /\ threads' = IF create /\ createOk THEN Append(threads, <<>>) ELSE threads
             /\ lastCall' = IF create THEN Call("create-session", 0) ELSE lastCall
             /\ IF create /\ ~createOk
                THEN \* create_thread raised: the script stops at line 249
                     /\ session_state' = ss1
                     /\ UNCHANGED <<pc, user_message, run_id, reply_content, turns,
                                    echoLen, fault, outcome, observed, instr, inputShown>>
                ELSE IF Truthy(input)
                THEN \* lines 259-263: echo the input, then go on to line 267
                     /\ session_state' = AppendEntry(ss2, "user", input)
                     /\ pc' = "add_msg"
                     /\ user_message' = input
                     /\ run_id' = 0
                     /\ reply_content' = None
                     /\ turns' = turns + 1
                     /\ echoLen' = Len(ss2["messages"]) + 1
                     /\ fault' = "none"
                     /\ outcome' = "none"
                     /\ observed' = None
                     /\ nStatusCalls' = 0
                     /\ nPendingSeen' = 0
                     /\ nSleeps' = 0
                     /\ nListCalls' = 0
                     /\ listResult' = <<>>
                     /\ logged' = <<>>
                     /\ inputShown' = TRUE
                ELSE \* line 259: no input, the script ends
                     /\ session_state' = ss2
                     /\ inputShown' = TRUE
                     /\ UNCHANGED <<pc, user_message, run_id, reply_content, turns,
                                    echoLen, fault, outcome, observed, instr>>
    /\ UNCHANGED <<runs, faultThread>>

\* line 267: add_user_message_to_thread (lines 108-123)
AddUserMessage ==
    /\ pc = "add_msg"
    /\ lastCall' = Call("append-message", session_state["thread"])
    /\ \E ok \in BOOLEAN :
         IF ok
         THEN /\ threads' = [threads EXCEPT ![session_state["thread"]] =
                                <<Message("user", user_message)>> \o @]
              /\ pc' = "create_run"
              /\ UNCHANGED <<fault, faultThread>>
         ELSE \* the call raised: nothing catches it, the script stops
              /\ fault' = "append-message"
              /\ faultThread' = session_state["thread"]
              /\ pc' = OnUncaughtException
              /\ UNCHANGED threads
    /\ UNCHANGED <<session_state, user_message, run_id, reply_content, runs, turns,
                   echoLen, outcome, observed, instr, inputShown>>

\* line 270: create_run (lines 126-147)
CreateRun ==
    /\ pc = "create_run"
    /\ lastCall' = Call("start-run", session_state["thread"])
    /\ \E ok \in BOOLEAN, c \in CreatedAts :
         IF ok
         THEN /\ runs' = Append(runs, [thread |-> session_state["thread"],
                                       status |-> "queued",
                                       created_at |-> c,
                                       completed_at |-> NoneTs])
              /\ run_id' = Len(runs) + 1
              /\ pc' = "poll"
              /\ UNCHANGED <<fault, faultThread>>
         ELSE /\ fault' = "start-run"
              /\ faultThread' = session_state["thread"]
              /\ pc' = OnUncaughtException
              /\ UNCHANGED <<runs, run_id>>
    /\ UNCHANGED <<session_state, user_message, reply_content, threads, turns,
                   echoLen, outcome, observed, instr, inputShown>>

\* lines 160-163 and 174-177: one runs.retrieve call of the wait loop
Poll ==
    /\ pc = "poll"
    /\ lastCall' = Call("get-run-status", session_state["thread"])
    /\ nStatusCalls' = Sat(nStatusCalls)
    /\ \E ok \in BOOLEAN :
         IF ok
         THEN /\ observed' = runs[run_id].status
              /\ nPendingSeen' = IF runs[run_id].status \in NonTerminal
                                 THEN Sat(nPendingSeen) ELSE nPendingSeen
              /\ pc' = IF RunIsComplete(runs[run_id]) THEN "list" ELSE "sleep"
              /\ logged' = IF RunIsComplete(runs[run_id]) /\ Len(logged) <= MaxPolls
                           THEN Append(logged, FormatElapsed(runs[run_id].completed_at
                                                             - runs[run_id].created_at))
                           ELSE logged
              /\ UNCHANGED <<fault, outcome, faultThread>>
         ELSE /\ fault' = "get-run-status"
              /\ faultThread' = session_state["thread"]
              /\ pc' = OnWaitException
              /\ outcome' = IF OnWaitException = "ret" THEN "returned_none" ELSE outcome
              /\ UNCHANGED <<observed, nPendingSeen, logged>>
    /\ UNCHANGED <<session_state, user_message, run_id, reply_content, threads, runs,
                   turns, echoLen, nSleeps, nListCalls, listResult, inputShown>>

\* lines 170-173: messages.list, then the text of data[0]
ListMessages ==
    /\ pc = "list"
    /\ lastCall' = Call("list-messages", session_state["thread"])
    /\ nListCalls' = Sat(nListCalls)
    /\ \E ok \in BOOLEAN :
         IF ok /\ Len(threads[session_state["thread"]]) > 0
         THEN /\ listResult' = threads[session_state["thread"]]
              /\ reply_content' = FirstText(threads[session_state["thread"]])
              /\ outcome' = "reply"
              /\ pc' = "ret"
              /\ UNCHANGED <<fault, faultThread>>
         ELSE \* the call raised, or data[0] raised IndexError: lines 174-176
              /\ fault' = IF ok THEN "index-error" ELSE "list-messages"
              /\ faultThread' = IF ok THEN faultThread ELSE session_state["thread"]
              /\ listResult' = IF ok THEN threads[session_state["thread"]] ELSE listResult
              /\ pc' = OnWaitException
              /\ outcome' = IF OnWaitException = "ret" THEN "returned_none" ELSE outcome
              /\ UNCHANGED reply_content
    /\ UNCHANGED <<session_state, user_message, run_id, threads, runs, turns, echoLen,
                   observed, nStatusCalls, nPendingSeen, nSleeps, inputShown, logged>>

\* lines 177-178: log, time.sleep(5), next iteration
Sleep ==
    /\ pc = "sleep"
    /\ pc' = IF WhileTrue(nStatusCalls) THEN "poll" ELSE "ret"
    /\ outcome' = IF WhileTrue(nStatusCalls) THEN outcome ELSE "returned_none"
    /\ nSleeps' = Sat(nSleeps)
    /\ UNCHANGED <<session_state, user_message, run_id, reply_content, threads, runs,
                   turns, echoLen, fault, observed, nStatusCalls,
                   nPendingSeen, nListCalls, listResult, lastCall, inputShown,
                   faultThread, logged>>

\* lines 273-278: the value returned is appended as the assistant entry
AppendReply ==
    /\ pc = "ret"
    /\ session_state' = AppendEntry(session_state, "assistant", reply_content)
    /\ pc' = "idle"
    /\ UNCHANGED <<user_message, run_id, reply_content, threads, runs, turns, echoLen,
                   fault, outcome, observed, instr, lastCall, inputShown, faultThread>>

\* The service moves a run: queued -> in_progress -> terminal, or straight to a
\* failure state.  A run that completes adds its messages to the thread.
RemoteAdvance ==
    /\ \E r \in 1..Len(runs) :
         \/ /\ runs[r].status = "queued"
            /\ runs' = [runs EXCEPT ![r].status = "in_progress"]
            /\ UNCHANGED threads
         \/ /\ runs[r].status \in NonTerminal
            /\ \E f \in FailureStates : runs' = [runs EXCEPT ![r].status = f]
            /\ UNCHANGED threads
         \/ /\ runs[r].status = "in_progress"
            /\ \E e \in Elapsed, n \in 0..MaxRunMsgs :
                 /\ runs' = [runs EXCEPT ![r].status = "completed",
                                         ![r].completed_at = runs[r].created_at + e]
                 /\ threads' = [threads EXCEPT ![runs[r].thread] =
                                   [i \in 1..n |-> Message("assistant", ReplyText(r))] \o @]
    /\ UNCHANGED <<session_state, pc, user_message, run_id, reply_content, turns,
                   echoLen, fault, outcome, observed, instr, lastCall, inputShown, faultThread>>

Next ==
    \/ Rerun
    \/ AddUserMessage
    \/ CreateRun
    \/ Poll
    \/ ListMessages
    \/ Sleep
    \/ AppendReply
    \/ RemoteAdvance

Spec == Init /\ [][Next]_vars

\* The interpreter keeps executing the script; the service and the user are
\* under no obligation.
FairSpec ==
    /\ Spec
    /\ WF_vars(AddUserMessage) /\ WF_vars(CreateRun)
    /\ WF_vars(Poll) /\ WF_vars(ListMessages) /\ WF_vars(Sleep) /\ WF_vars(AppendReply)

\* ================================================================ claims
WaitFaults == {"get-run-status", "list-messages"}
InWait == pc \in {"poll", "sleep", "list"}
Outstanding == {r \in 1..Len(runs) : runs[r].status \in NonTerminal}

\* C1: start-run is never invoked while a run started earlier for the session is
\* still queued or in_progress; at most one run of the session is outstanding.
C1_NoRunWhileOutstanding ==
    /\ pc = "create_run" => Outstanding = {}
    /\ Cardinality(Outstanding) <= 1

\* C2: once the N-th turn has finished the transcript holds exactly 2N entries,
\* user at the odd positions and assistant at the even ones.
C2_TwoEntriesPerTurn ==
    pc = "idle" =>
        /\ Len(Transcript) = 2 * turns
        /\ \A i \in 1..Len(Transcript) :
             Transcript[i].role = IF i % 2 = 1 THEN "user" ELSE "assistant"

\* C3: when a poll sees the run failed, cancelled or expired, the wait ends with
\* RunFailedError and no assistant entry is appended for that turn.
C3_FailedRunRaises ==
    observed \in FailureStates =>
        /\ outcome = "RunFailedError"
        /\ ~InWait
        /\ Len(Transcript) = echoLen

\* C4: a wait in which get-run-status or list-messages raised ends with a
\* TransportError, never with a normal return that carries no reply.
C4_FaultSurfacesAsError ==
    (fault \in WaitFaults /\ ~InWait) => outcome = "TransportError"

\* C5: after the first raised call inside the wait loop there is no further
\* get-run-status call, list-messages call or sleep for that run.
C5_NoRetryAfterFault ==
    [][(fault \in WaitFaults /\ run_id' = run_id) =>
          /\ nStatusCalls' = nStatusCalls
          /\ nListCalls' = nListCalls
          /\ nSleeps' = nSleeps
          /\ pc' \in {"ret", "idle"}]_vars

C5_Witness ==
    /\ fault = "get-run-status"
    /\ nStatusCalls = 3
    /\ nSleeps = 2
    /\ pc = "idle"

\* C6: once the run is terminal (completed, failed, cancelled or expired) the
\* wait eventually ends, with a reply or an error.
C6_TerminalRunEndsWait ==
    (InWait /\ runs[run_id].status \in Terminal) ~> ~InWait

\* C7: a wait whose first k polls saw queued or in_progress and whose poll k+1
\* saw completed makes k+1 get-run-status calls, k sleeps and one list-messages
\* call, and returns the text of the first message of the list-messages answer.
C7_PollCounts ==
    (outcome = "reply" /\ nStatusCalls <= MaxPolls) =>
        /\ observed = "completed"
        /\ nStatusCalls = nPendingSeen + 1
        /\ nSleeps = nPendingSeen
        /\ nListCalls = 1
        /\ reply_content = listResult[1].content[1]

C7_Witness ==
    /\ outcome = "reply"
    /\ nPendingSeen = 2
    /\ nStatusCalls = 3
    /\ Len(listResult) >= 2
    /\ listResult[1].content # listResult[Len(listResult)].content

\* C8: every finished turn has put exactly one entry after the echoed user
\* entry: the reply text or an error notice, whichever remote call failed.
C8_OneEntryPerTurn ==
    (pc = "idle" /\ turns > 0) =>
        /\ Len(Transcript) = echoLen + 1
        /\ \/ outcome = "reply" /\ Transcript[echoLen + 1] = Entry("assistant", reply_content)
           \/ Transcript[echoLen + 1].role = "error"

\* C9: after a turn that ended on a raised remote call the session identifier
\* stays what it was, the next non-empty input is accepted, echoed and sent on
\* to append-message, and the calls of that turn carry the same identifier.
C9_SessionUsableAfterFault ==
    /\ [](faultThread # 0 =>
            /\ Thread = faultThread
            /\ (pc # "idle" /\ lastCall.op # "create-session" /\ lastCall.thread # 0
                  => lastCall.thread = faultThread)
            /\ (pc = "idle" /\ turns < MaxTurns => ENABLED (Rerun /\ pc' = "add_msg")))
    /\ [][(faultThread # 0 /\ pc = "idle" /\ pc' # "idle") =>
            /\ pc' = "add_msg"
            /\ Truthy(user_message')
            /\ Transcript' = Append(Transcript, Entry("user", user_message'))]_vars

C9_Witness ==
    /\ faultThread # 0
    /\ fault = "none"
    /\ turns = 2
    /\ pc = "poll"
    /\ lastCall = Call("start-run", faultThread)

\* C10: in every step the transcript before the step is a prefix of the
\* transcript after it.
C10_TranscriptAppendOnly ==
    [][IsPrefix(Transcript, Transcript')]_vars

C10_Witness ==
    /\ Len(Transcript) >= 3
    /\ faultThread # 0
    /\ pc = "idle"

\* C11: while the run is not terminal and no remote call raises, the wait does
\* not end: whatever the number of polls already made, the loop sleeps and
\* polls again.
C11_UnboundedWait ==
    /\ [](pc = "sleep" => ENABLED (Sleep /\ pc' = "poll"))
    /\ [](pc = "poll" => ENABLED (Poll /\ nStatusCalls' = Sat(nStatusCalls)))
    /\ [][(InWait /\ fault' = "none" /\ run_id' = run_id
              /\ runs'[run_id].status \in NonTerminal) => InWait']_vars

C11_Witness ==
    /\ pc = "sleep"
    /\ fault = "none"
    /\ runs[run_id].status \in NonTerminal
    /\ nStatusCalls = MaxPolls + 1
    /\ nSleeps = MaxPolls + 1

\* C12: list-messages is called and a reply text is returned only after a poll
\* that observed the run completed, never after one that observed queued,
\* in_progress, failed, cancelled or expired.
C12_ActsOnlyOnCompleted ==
    (pc = "list" \/ nListCalls > 0 \/ outcome = "reply") => observed = "completed"

C12_Witness ==
    /\ outcome = "reply"
    /\ observed = "completed"
    /\ nPendingSeen >= 1
    /\ nListCalls = 1

\* C13: within a turn the user entry is in the transcript before append-message
\* is called, append-message has been acknowledged before start-run is called,
\* start-run has returned before the first get-run-status call, and the
\* assistant entry is appended only after the wait has ended; once a call of
\* the turn has raised, no further remote call of that turn is made.
C13_TurnOrder ==
    [][/\ AddUserMessage =>
            /\ fault = "none"
            /\ Len(Transcript) = echoLen
            /\ Transcript[echoLen] = Entry("user", user_message)
            /\ run_id = 0 /\ nStatusCalls = 0 /\ nListCalls = 0
       /\ CreateRun =>
            /\ fault = "none"
            /\ lastCall = Call("append-message", Thread)
            /\ \E i \in 1..Len(threads[Thread]) :
                 threads[Thread][i] = Message("user", user_message)
            /\ run_id = 0 /\ nStatusCalls = 0 /\ nListCalls = 0
       /\ Poll =>
            /\ fault = "none"
            /\ run_id \in 1..Len(runs)
            /\ nStatusCalls = 0 => lastCall = Call("start-run", Thread)
            /\ Len(Transcript) = echoLen
       /\ ListMessages =>
            /\ fault = "none"
            /\ nStatusCalls >= 1
            /\ Len(Transcript) = echoLen
       /\ (Len(Transcript') > Len(Transcript)
             /\ Transcript'[Len(Transcript')].role = "assistant") =>
            /\ outcome \in {"reply", "returned_none"}
            /\ nStatusCalls >= 1
            /\ ~InWait]_vars

C13_Witness ==
    /\ turns = 2
    /\ faultThread # 0
    /\ fault = "none"
    /\ outcome = "reply"
    /\ nSleeps >= 1
    /\ pc = "idle"
    /\ Len(Transcript) = echoLen + 1

TurnOps == {"append-message", "start-run", "get-run-status", "list-messages"}

\* C14: over all reruns and turns of a UI session create-session succeeds at
\* most once, the session identifier never changes once set, and every
\* append-message, start-run, get-run-status and list-messages call carries it.
C14_OneSession ==
    /\ [](Len(threads) <= 1)
    /\ [](lastCall.op \in TurnOps => Thread # 0 /\ lastCall.thread = Thread)
    /\ [](\A r \in 1..Len(runs) : runs[r].thread = Thread)
    /\ [][Thread # 0 => Thread' = Thread]_vars

C14_Witness ==
    /\ turns = 2
    /\ pc = "ret"
    /\ lastCall = Call("list-messages", Thread)
    /\ Len(threads) = 1
    /\ Len(runs) = 2

\* C15: every assistant entry of the transcript holds the text of an assistant
\* message produced by the run of its own turn: never null or empty, never the
\* user's own text, never the reply of an earlier turn.
C15_ReplyFromOwnRun ==
    /\ \A i \in 1..Len(Transcript) :
         Transcript[i].role = "assistant" =>
             Transcript[i].content \notin ({None, ""} \cup UserTexts)
    /\ (pc = "idle" /\ Len(Transcript) > echoLen) =>
          /\ run_id # 0
          /\ Transcript[echoLen + 1].content = ReplyText(run_id)

\* a step that is a page rerun whose input is empty or absent
EmptyRerun == Rerun /\ (pc' = "idle" \/ user_message' \in {None, ""})

\* no append-message, start-run, get-run-status or list-messages call in the step
NoTurnCall ==
    /\ lastCall' = lastCall \/ lastCall'.op = "create-session"
    /\ runs' = runs
    /\ \A t \in 1..Len(threads) : threads'[t] = threads[t]
    /\ nStatusCalls' = nStatusCalls
    /\ nListCalls' = nListCalls
    /\ pc' = "idle"

\* C16 (as stated): a page rerun with empty or absent input makes no
\* append-message, start-run, get-run-status or list-messages call and leaves
\* the transcript and the session identifier unchanged.
C16_EmptyRerunChangesNothing ==
    [][EmptyRerun =>
          /\ NoTurnCall
          /\ Transcript' = Transcript
          /\ Thread' = Thread]_vars

\* C16 (amended): a page rerun with empty or absent input makes none of those
\* calls and leaves the transcript unchanged; it leaves the session identifier
\* unchanged if one is set, and otherwise calls create-session and sets it to
\* the new identifier when that call succeeds.
C16_EmptyRerunKeepsSession ==
    [][EmptyRerun =>
          /\ NoTurnCall
          /\ Transcript' = Transcript
          /\ Thread # 0 => Thread' = Thread
          /\ Thread = 0 =>
               /\ lastCall' = Call("create-session", 0)
               /\ Thread' \in {0, Len(threads')}
               /\ Thread' # 0 <=> Len(threads') = Len(threads) + 1]_vars

C16_Witness ==
    /\ pc = "idle"
    /\ turns = 0
    /\ Has("messages")
    /\ Transcript = <<>>
    /\ Thread # 0
    /\ inputShown
    /\ lastCall = Call("create-session", 0)

\* a duration of e seconds written as hours:minutes:seconds
HMS(e) == Pad2(e \div 3600) \o ":" \o Pad2((e \div 60) % 60) \o ":" \o Pad2(e % 60)

\* C17: a wait that saw the run completed has logged the elapsed time exactly
\* once, completed_at - created_at seconds written as HH:MM:SS (100 and 107
\* give 00:00:07), for every completed_at >= created_at; a wait that has not
\* seen a completed run has logged none.
C17_ElapsedLogged ==
    /\ observed = "completed" =>
          logged = <<HMS(runs[run_id].completed_at - runs[run_id].created_at)>>
    /\ observed # "completed" => logged = <<>>

====
